---- MODULE Spec2Model ----
(***************************************************************************)
(* Model of main.py, the threaded HTTP requester: the work queue seeded    *)
(* by main(), the worker threads, the shared counters under their lock,    *)
(* the stop event set by the SIGINT handler, and main()'s wait, join and   *)
(* summary.  One worker action per statement of worker()'s loop, so that   *)
(* every interleaving of the threads at statement granularity is explored. *)
(***************************************************************************)
EXTENDS Integers, Naturals, Sequences, FiniteSets, TLC

\* ---------------------------------------------------------------- bounds
MaxRequests == 3
MaxThreads == 2
MaxInterrupts == 2

\* ------------------------------------------------------------- constants
\* Status codes a response may carry: both edges of the band of line 46.
StatusCodes == {199, 200, 399, 400}
NoResp == 0
NoOne == 0
\* line 75: the two ceilings of the safety check
RequestCeiling == 100000
VolumeCeiling == 1000000
\* Command lines on both sides of each ceiling, for the start-up of main()
GuardRequests == {0, 1, 100000, 100001}
GuardThreads == {-1, 0, 1, 9, 10, 11}

VARIABLES
    requests,     \* args.requests
    threads,      \* args.threads
    q,            \* queue.Queue: the units not yet taken, oldest first
    unfinished,   \* q.unfinished_tasks: put() minus task_done()
    counters,     \* {"sent", "success", "fail"}
    lock,         \* threading.Lock: the worker holding it, or NoOne
    stop_event,   \* threading.Event
    pc,           \* each worker thread's position in worker()
    resp,         \* each worker's local resp.status_code
    mpc,          \* main()'s position
    mi,           \* main()'s loop index over threads
    out,          \* the numbers of the progress lines printed, in order
    notices,      \* "Stopping workers..." lines printed by handle_sigint
    summary,      \* the values main() has printed in the summary, in order
    taken,        \* history: the units dequeued, in the order of the dequeues
    answered      \* history: requests answered in / outside [200, 400)

vars == <<requests, threads, q, unfinished, counters, lock, stop_event,
          pc, resp, mpc, mi, out, notices, summary, taken, answered>>

\* The program's own state: everything but standard output and the history.
progVars == <<requests, threads, q, unfinished, counters, lock,
              stop_event, pc, resp, mpc, mi>>

Workers == 1..threads
Units == 1..requests

\* ------------------------------------------------------ pure definitions
\* line 46: 200 <= resp.status_code < 400
IsSuccess_UpperInclusive(code) == 200 <= code /\ code <= 400
IsSuccess(code) == 200 <= code /\ code < 400

\* threading.Event.is_set() (lines 37, 111)
IsSet_Never(ev) == FALSE
IsSet(ev) == ev

\* threading.Event.set() (lines 91, 115)
SetEvent_Toggle(ev) == ~ev
SetEvent(ev) == TRUE

\* with lock: the lock can be acquired (lines 44, 52)
LockFree_NoLock(l) == TRUE
LockFree(l) == l = NoOne

\* q.get_nowait() finds a unit (line 39) and removes it
CanGet(s) == Len(s) > 0
Dequeue_Peek(s) == s
Dequeue(s) == Tail(s)

\* t.is_alive(): started and worker() has not returned (line 109)
Exited(w) == pc[w] \in {"stopped", "drained"}
Alive(w) == pc[w] \notin {"unstarted", "stopped", "drained"}

\* the process exists until main() returns or sys.exit(1) is called (line
\* 77); daemon threads die with it
Running == mpc \notin {"done", "rejected"}

\* line 94: signal.signal(signal.SIGINT, handle_sigint) has been executed
HandlerInstalled == mpc \notin {"guard", "seed", "rejected"}

\* line 75: args.requests > 100000 and args.threads * args.requests > 1000000
Guardrail_Either(r, t) == r > RequestCeiling \/ t * r > VolumeCeiling
Guardrail(r, t) == r > RequestCeiling /\ t * r > VolumeCeiling

\* lines 79-81: for _ in range(args.requests): q.put(1)
SeedQueue(n) == [i \in 1..n |-> i]

\* ------------------------------------------------------------------ Init
\* The state at line 73, the command line parsed; the objects main() creates
\* before its first thread (lines 79-88) are shown with their initial values.
InitWith(R, T) ==
    /\ requests \in R
    /\ threads \in T
    /\ q = << >>
    /\ unfinished = 0
    /\ counters = [sent |-> 0, success |-> 0, fail |-> 0]
    /\ lock = NoOne
    /\ stop_event = FALSE
    /\ pc = [w \in Workers |-> "unstarted"]
    /\ resp = [w \in Workers |-> NoResp]
    /\ mpc = "guard"
    /\ mi = 1
    /\ out = << >>
    /\ notices = 0
    /\ summary = << >>
    /\ taken = << >>
    /\ answered = [ok |-> 0, other |-> 0]

Init == InitWith(0..MaxRequests, -1..MaxThreads)

\* --------------------------------------------------------------- workers
\* line 37: while not stop_event.is_set()
Check(w) ==
    /\ Running /\ w \in Workers /\ pc[w] = "check"
    /\ pc' = [pc EXCEPT ![w] = IF IsSet(stop_event) THEN "stopped" ELSE "take"]
    /\ UNCHANGED <<requests, threads, q, unfinished, counters, lock,
                   stop_event, resp, mpc, mi, out, notices, summary, taken,
                   answered>>

\* lines 38-41: q.get_nowait(), break on queue.Empty; on success the worker
\* enters session.request (line 43)
Take(w) ==
    /\ Running /\ w \in Workers /\ pc[w] = "take"
    /\ IF CanGet(q)
       THEN /\ q' = Dequeue(q)
            /\ taken' = Append(taken, Head(q))
            /\ pc' = [pc EXCEPT ![w] = "request"]
       ELSE /\ pc' = [pc EXCEPT ![w] = "drained"]
            /\ UNCHANGED <<q, taken>>
    /\ UNCHANGED <<requests, threads, unfinished, counters, lock,
                   stop_event, resp, mpc, mi, out, notices, summary, answered>>

\* line 43: session.request returns a response with some status code
ReturnStatus(w) ==
    /\ Running /\ w \in Workers /\ pc[w] = "request"
    /\ \E code \in StatusCodes :
          /\ resp' = [resp EXCEPT ![w] = code]
          /\ answered' = IF code \in 200..399
                         THEN [answered EXCEPT !.ok = @ + 1]
                         ELSE [answered EXCEPT !.other = @ + 1]
    /\ pc' = [pc EXCEPT ![w] = "ok_lock"]
    /\ UNCHANGED <<requests, threads, q, unfinished, counters, lock,
                   stop_event, mpc, mi, out, notices, summary, taken>>

\* lines 43, 51: session.request raises (timeout, DNS, refused, TLS)
ReturnFault(w) ==
    /\ Running /\ w \in Workers /\ pc[w] = "request"
    /\ answered' = [answered EXCEPT !.other = @ + 1]
    /\ pc' = [pc EXCEPT ![w] = "err_lock"]
    /\ UNCHANGED <<requests, threads, q, unfinished, counters, lock,
                   stop_event, resp, mpc, mi, out, notices, summary, taken>>

\* line 44: with lock (normal path)
OkLock(w) ==
    /\ Running /\ w \in Workers /\ pc[w] = "ok_lock"
    /\ LockFree(lock)
    /\ lock' = w
    /\ pc' = [pc EXCEPT ![w] = "ok_sent"]
    /\ UNCHANGED <<requests, threads, q, unfinished, counters,
                   stop_event, resp, mpc, mi, out, notices, summary, taken, answered>>

\* line 45: counters["sent"] += 1
OkSent(w) ==
    /\ Running /\ w \in Workers /\ pc[w] = "ok_sent"
    /\ counters' = [counters EXCEPT !.sent = @ + 1]
    /\ pc' = [pc EXCEPT ![w] = "ok_class"]
    /\ UNCHANGED <<requests, threads, q, unfinished, lock, stop_event,
                   resp, mpc, mi, out, notices, summary, taken,
                   answered>>

\* lines 46-49: classify the status code, the last use of resp that the
\* model keeps
OkClass(w) ==
    /\ Running /\ w \in Workers /\ pc[w] = "ok_class"
    /\ counters' = IF IsSuccess(resp[w])
                   THEN [counters EXCEPT !.success = @ + 1]
                   ELSE [counters EXCEPT !.fail = @ + 1]
    /\ resp' = [resp EXCEPT ![w] = NoResp]
    /\ pc' = [pc EXCEPT ![w] = "ok_print"]
    /\ UNCHANGED <<requests, threads, q, unfinished, lock, stop_event,
                   mpc, mi, out, notices, summary, taken,
                   answered>>

OkPrint_KeepLock(w) ==
    /\ Running /\ w \in Workers /\ pc[w] = "ok_print"
    /\ out' = Append(out, counters.sent)
    /\ pc' = [pc EXCEPT ![w] = "task_done"]
    /\ UNCHANGED <<requests, threads, q, unfinished, counters, lock,
                   stop_event, resp, mpc, mi, notices, summary, taken,
                   answered>>

\* line 50 and the end of the with block: print the progress line (of which
\* only the number is kept), release
OkPrint(w) ==
    /\ Running /\ w \in Workers /\ pc[w] = "ok_print"
    /\ out' = Append(out, counters.sent)
    /\ lock' = NoOne
    /\ pc' = [pc EXCEPT ![w] = "task_done"]
    /\ UNCHANGED <<requests, threads, q, unfinished, counters,
                   stop_event, resp, mpc, mi, notices, summary, taken,
                   answered>>

\* line 52: with lock (except path)
ErrLock(w) ==
    /\ Running /\ w \in Workers /\ pc[w] = "err_lock"
    /\ LockFree(lock)
    /\ lock' = w
    /\ pc' = [pc EXCEPT ![w] = "err_sent"]
    /\ UNCHANGED <<requests, threads, q, unfinished, counters,
                   stop_event, resp, mpc, mi, out, notices, summary, taken, answered>>

\* line 53: counters["sent"] += 1
ErrSent(w) ==
    /\ Running /\ w \in Workers /\ pc[w] = "err_sent"
    /\ counters' = [counters EXCEPT !.sent = @ + 1]
    /\ pc' = [pc EXCEPT ![w] = "err_fail"]
    /\ UNCHANGED <<requests, threads, q, unfinished, lock, stop_event,
                   resp, mpc, mi, out, notices, summary, taken,
                   answered>>

ErrFail_Skip(w) ==
    /\ Running /\ w \in Workers /\ pc[w] = "err_fail"
    /\ pc' = [pc EXCEPT ![w] = "err_print"]
    /\ UNCHANGED <<requests, threads, q, unfinished, counters, lock,
                   stop_event, resp, mpc, mi, out, notices, summary, taken, answered>>

\* line 54: counters["fail"] += 1
ErrFail(w) ==
    /\ Running /\ w \in Workers /\ pc[w] = "err_fail"
    /\ counters' = [counters EXCEPT !.fail = @ + 1]
    /\ pc' = [pc EXCEPT ![w] = "err_print"]
    /\ UNCHANGED <<requests, threads, q, unfinished, lock, stop_event,
                   resp, mpc, mi, out, notices, summary, taken,
                   answered>>

\* line 55 and the end of the with block: print the error line, release
ErrPrint(w) ==
    /\ Running /\ w \in Workers /\ pc[w] = "err_print"
    /\ out' = Append(out, counters.sent)
    /\ lock' = NoOne
    /\ pc' = [pc EXCEPT ![w] = "task_done"]
    /\ UNCHANGED <<requests, threads, q, unfinished, counters,
                   stop_event, resp, mpc, mi, notices, summary, taken, answered>>

TaskDone_Forgotten(w) ==
    /\ Running /\ w \in Workers /\ pc[w] = "task_done"
    /\ pc' = [pc EXCEPT ![w] = "check"]
    /\ UNCHANGED <<requests, threads, q, unfinished, counters, lock,
                   stop_event, resp, mpc, mi, out, notices, summary, taken, answered>>

\* lines 56-59: finally: q.task_done(); then time.sleep(delay) if a delay is
\* configured.  The sleep changes no state: a sleeping worker is a worker
\* that takes its next step later, which every interleaving already allows.
TaskDone(w) ==
    /\ Running /\ w \in Workers /\ pc[w] = "task_done"
    /\ unfinished' = unfinished - 1
    /\ pc' = [pc EXCEPT ![w] = "check"]
    /\ UNCHANGED <<requests, threads, q, counters, lock, stop_event,
                   resp, mpc, mi, out, notices, summary, taken,
                   answered>>

\* ------------------------------------------------------------------ main
\* lines 75-77: the safety check; sys.exit(1) when it rejects the run
Guard ==
    /\ mpc = "guard"
    /\ mpc' = IF Guardrail(requests, threads) THEN "rejected" ELSE "seed"
    /\ UNCHANGED <<requests, threads, q, unfinished, counters, lock,
                   stop_event, pc, resp, mi, out, notices, summary, taken, answered>>

\* lines 79-94: seed the queue with args.requests units (no other thread
\* exists yet), create counters, lock and event, install the handler
Seed ==
    /\ mpc = "seed"
    /\ q' = SeedQueue(requests)
    /\ unfinished' = Len(SeedQueue(requests))
    /\ mpc' = "spawn"
    /\ UNCHANGED <<requests, threads, counters, lock, stop_event, pc, resp,
                   mi, out, notices, summary, taken, answered>>

\* lines 98-105: create and start thread mi
Spawn ==
    /\ mpc = "spawn" /\ mi <= threads
    /\ pc' = [pc EXCEPT ![mi] = "check"]
    /\ mi' = mi + 1
    /\ UNCHANGED <<requests, threads, q, unfinished, counters, lock,
                   stop_event, resp, mpc, out, notices, summary, taken, answered>>

\* line 98: the range is exhausted, main enters the try block
SpawnDone ==
    /\ mpc = "spawn" /\ mi > threads
    /\ mpc' = "poll"
    /\ UNCHANGED <<requests, threads, q, unfinished, counters, lock,
                   stop_event, pc, resp, mi, out, notices, summary, taken, answered>>

\* line 109: while any(t.is_alive() for t in threads)
Poll ==
    /\ mpc = "poll"
    /\ mpc' = IF \E w \in Workers : Alive(w) THEN "sleep" ELSE "qjoin"
    /\ UNCHANGED <<requests, threads, q, unfinished, counters, lock,
                   stop_event, pc, resp, mi, out, notices, summary, taken, answered>>

\* lines 110-112: time.sleep(0.1); if stop_event.is_set(): break
Sleep ==
    /\ mpc = "sleep"
    /\ mpc' = IF IsSet(stop_event) THEN "qjoin" ELSE "poll"
    /\ UNCHANGED <<requests, threads, q, unfinished, counters, lock,
                   stop_event, pc, resp, mi, out, notices, summary, taken, answered>>

QJoin_NoWait ==
    /\ mpc = "qjoin"
    /\ mpc' = "join"
    /\ mi' = 1
    /\ UNCHANGED <<requests, threads, q, unfinished, counters, lock,
                   stop_event, pc, resp, out, notices, summary, taken, answered>>

\* line 113: q.join() returns once unfinished_tasks is 0; it has no timeout
QJoin ==
    /\ mpc = "qjoin"
    /\ unfinished = 0
    /\ mpc' = "join"
    /\ mi' = 1
    /\ UNCHANGED <<requests, threads, q, unfinished, counters, lock,
                   stop_event, pc, resp, out, notices, summary, taken, answered>>

\* lines 118-119: t.join(timeout=1) returns, the thread dead or not
Join ==
    /\ mpc = "join" /\ mi <= threads
    /\ mi' = mi + 1
    /\ UNCHANGED <<requests, threads, q, unfinished, counters, lock,
                   stop_event, pc, resp, mpc, out, notices, summary, taken, answered>>

\* line 118: the loop over threads is exhausted
JoinDone ==
    /\ mpc = "join" /\ mi > threads
    /\ mpc' = "sum_sent"
    /\ UNCHANGED <<requests, threads, q, unfinished, counters, lock,
                   stop_event, pc, resp, mi, out, notices, summary, taken, answered>>

\* line 123: print Total sent (reads counters without the lock)
SumSent ==
    /\ mpc = "sum_sent"
    /\ summary' = Append(summary, counters.sent)
    /\ mpc' = "sum_success"
    /\ UNCHANGED <<requests, threads, q, unfinished, counters, lock,
                   stop_event, pc, resp, mi, out, notices, taken,
                   answered>>

\* line 124: print Successful
SumSuccess ==
    /\ mpc = "sum_success"
    /\ summary' = Append(summary, counters.success)
    /\ mpc' = "sum_fail"
    /\ UNCHANGED <<requests, threads, q, unfinished, counters, lock,
                   stop_event, pc, resp, mi, out, notices, taken,
                   answered>>

\* lines 125-128: print Failed/error and the timing lines; main returns
SumFail ==
    /\ mpc = "sum_fail"
    /\ summary' = Append(summary, counters.fail)
    /\ mpc' = "done"
    /\ UNCHANGED <<requests, threads, q, unfinished, counters, lock,
                   stop_event, pc, resp, mi, out, notices, taken,
                   answered>>

Interrupt_DrainsQueue ==
    /\ Running /\ HandlerInstalled
    /\ notices < MaxInterrupts
    /\ stop_event' = SetEvent(stop_event)
    /\ notices' = notices + 1
    /\ q' = << >>
    /\ UNCHANGED <<requests, threads, unfinished, counters, lock,
                   pc, resp, mpc, mi, out, summary, taken, answered>>

\* lines 90-92: SIGINT is delivered and handle_sigint runs in the main
\* thread, between any two of its steps (also while it is blocked in a wait)
Interrupt ==
    /\ Running /\ HandlerInstalled
    /\ notices < MaxInterrupts
    /\ stop_event' = SetEvent(stop_event)
    /\ notices' = notices + 1
    /\ UNCHANGED <<requests, threads, q, unfinished, counters, lock,
                   pc, resp, mpc, mi, out, summary, taken, answered>>

\* ------------------------------------------------------- specifications
WorkerLocal(w) ==
    \/ Check(w) \/ Take(w)
    \/ OkLock(w) \/ OkSent(w) \/ OkClass(w) \/ OkPrint(w)
    \/ ErrLock(w) \/ ErrSent(w) \/ ErrFail(w) \/ ErrPrint(w)
    \/ TaskDone(w)

Return(w) == ReturnStatus(w) \/ ReturnFault(w)

MainStep ==
    \/ Guard \/ Seed \/ Spawn \/ SpawnDone \/ Poll \/ Sleep \/ QJoin \/ Join \/ JoinDone
    \/ SumSent \/ SumSuccess \/ SumFail

Next ==
    \/ \E w \in 1..MaxThreads : WorkerLocal(w)
    \/ \E w \in 1..MaxThreads : Return(w)
    \/ MainStep
    \/ Interrupt

Spec == Init /\ [][Next]_vars

\* Every thread that can run does run, and every issued request returns.
FairSpec ==
    /\ Spec
    /\ WF_vars(MainStep)
    /\ \A w \in 1..MaxThreads : WF_vars(WorkerLocal(w))
    /\ \A w \in 1..MaxThreads : WF_vars(Return(w))

\* The runs in which no SIGINT is ever delivered, every thread that can run
\* does run and every issued request returns.
NextQuiet ==
    \/ \E w \in 1..MaxThreads : WorkerLocal(w)
    \/ \E w \in 1..MaxThreads : Return(w)
    \/ MainStep

QuietSpec ==
    /\ Init /\ [][NextQuiet]_vars
    /\ WF_vars(MainStep)
    /\ \A w \in 1..MaxThreads : WF_vars(WorkerLocal(w))
    /\ \A w \in 1..MaxThreads : WF_vars(Return(w))

\* The start-up of main() alone (lines 73-105), on command lines around the
\* ceilings of the safety check: the worker threads it starts do not run.
NextStartup == Guard \/ Seed \/ Spawn \/ SpawnDone

GuardSpec == InitWith(GuardRequests, GuardThreads) /\ [][NextStartup]_vars

\* Every thread that can run does run, but a request may never return.
HangSpec ==
    /\ Spec
    /\ WF_vars(MainStep)
    /\ \A w \in 1..MaxThreads : WF_vars(WorkerLocal(w))

\* ---------------------------------------------------------------- claims
InCritical(w) == pc[w] \in {"ok_sent", "ok_class", "ok_print",
                            "err_sent", "err_fail", "err_print"}
AllExited == \A w \in Workers : Exited(w)
Balanced == counters.sent = counters.success + counters.fail

\* C1: with at least one thread, no interrupt ever delivered and every
\* request returning (FairSpec), the run eventually reaches the end of the
\* summary with every worker exited, sent = requests and
\* success + fail = sent.
C1_UninterruptedRunCompletes ==
    <>(\/ threads <= 0
       \/ stop_event
       \/ /\ mpc = "done"
          /\ AllExited
          /\ counters.sent = requests
          /\ Balanced)
C1_Witness ==
    /\ mpc = "done" /\ ~stop_event /\ threads = 2 /\ requests >= 2
    /\ AllExited /\ counters.sent = requests /\ Balanced
    /\ counters.success >= 1 /\ counters.fail >= 1

\* C2: after an interrupt, with every thread scheduled and every request
\* returning (FairSpec), main() eventually prints the summary and returns.
C2_InterruptedRunTerminates ==
    (stop_event /\ threads >= 1) ~> (mpc = "done")

\* C3: no seeded unit is dequeued twice, the dequeues never exceed the
\* seeded count, once the queue is seeded the units left plus the units
\* dequeued are the units seeded, and an uninterrupted run that ends has
\* dequeued every unit.
C3_DequeuesExactlyOnce ==
    /\ \A i, j \in 1..Len(taken) : taken[i] = taken[j] => i = j
    /\ \A i \in 1..Len(taken) : taken[i] \in Units
    /\ Len(q) >= 0
    /\ Len(taken) <= requests
    /\ HandlerInstalled => Len(q) + Len(taken) = requests
    /\ (mpc = "done" /\ ~stop_event) =>
          {taken[i] : i \in 1..Len(taken)} = Units
C3_Witness ==
    /\ threads = 2 /\ requests >= 2
    /\ pc[1] = "request" /\ pc[2] = "request"
    /\ taken = <<1, 2>>

\* C4: whoever reads the counters sees sent = success + fail: a worker
\* entering its critical section (about to read sent), main() reading them
\* for the summary, and anyone at a moment the lock is free; and two workers
\* are never inside the critical section together.
C4_ObserversSeeBalanced ==
    /\ \A w \in Workers : pc[w] \in {"ok_sent", "err_sent"} => Balanced
    /\ mpc \in {"sum_sent", "sum_success", "sum_fail"} =>
          (Balanced /\ \A w \in Workers : ~InCritical(w))
    /\ lock = NoOne => Balanced
    /\ \A v, w \in Workers : (InCritical(v) /\ InCritical(w)) => v = w
    /\ \A w \in Workers : InCritical(w) => lock = w
C4_Witness ==
    /\ threads = 2
    /\ pc[1] = "ok_class" /\ ~Balanced
    /\ pc[2] \in {"ok_lock", "err_lock"}

\* C5: sent never exceeds requests, the three counters are never negative,
\* and no step decreases any of them (interrupted or not).
C5_CountersBoundedMonotone ==
    /\ [](/\ counters.sent <= requests
          /\ counters.sent >= 0 /\ counters.success >= 0 /\ counters.fail >= 0)
    /\ [][/\ counters'.sent >= counters.sent
          /\ counters'.success >= counters.success
          /\ counters'.fail >= counters.fail]_vars
C5_Witness ==
    /\ stop_event /\ requests >= 2 /\ counters.sent = requests
    /\ counters.success >= 1 /\ counters.fail >= 1

\* C6 as claimed: with the event set, no worker starts a request.
C6_NoRequestStartedAfterRaise ==
    [][\A w \in Workers :
        (stop_event /\ pc'[w] = "request") => pc[w] = "request"]_vars

\* C6 as amended: a worker that evaluates the stop check with the event set
\* exits as stopped without taking a unit; with the event set no worker
\* passes the stop check any more, so a request is started after the raise
\* only by a worker that was already between the check (line 37) and the
\* dequeue (line 39); such a worker is back at the check after that one
\* request, hence at most one late request per worker.
C6_StopObservedAtNextCheck ==
    [][\A w \in Workers :
        /\ (stop_event /\ pc[w] = "check" /\ pc'[w] # pc[w])
              => (pc'[w] = "stopped" /\ q' = q)
        /\ (stop_event /\ pc'[w] = "take") => pc[w] = "take"
        /\ (stop_event /\ pc'[w] = "request" /\ pc[w] # "request")
              => pc[w] = "take"
        /\ (pc[w] = "request" /\ pc'[w] # pc[w])
              => pc'[w] \in {"ok_lock", "err_lock"}
        /\ (pc[w] = "task_done" /\ pc'[w] # pc[w]) => pc'[w] = "check"
        /\ Exited(w) => pc'[w] = pc[w]]_vars
C6_Witness ==
    \E w \in Workers :
        /\ stop_event /\ pc[w] = "stopped"
        /\ Len(q) >= 1 /\ counters.sent >= 1

\* C7: with at least one thread and no interrupt, main() eventually returns
\* even when a request never returns (HangSpec).
C7_CoordinatorTerminatesDespiteHang ==
    <>(threads <= 0 \/ stop_event \/ mpc = "done")

ErrPath == {"err_lock", "err_sent", "err_fail", "err_print"}
FaultStep(w) ==
    /\ pc'[w] # pc[w]
    /\ \/ pc[w] \in ErrPath
       \/ pc[w] = "request" /\ pc'[w] = "err_lock"

\* C8: every step a worker takes from the moment its request raised until
\* it has printed the error line keeps that worker in its loop, leaves every
\* other worker and main() where they are, never changes success, and adds
\* one to sent (line 53) and one to fail (line 54) and nothing else; the
\* step after it (task_done) leads back to the stop check.
C8_FaultRecordedNotPropagated ==
    [][\A w \in Workers :
        /\ FaultStep(w) =>
            /\ pc'[w] \in ErrPath \cup {"task_done"}
            /\ \A v \in Workers \ {w} : pc'[v] = pc[v]
            /\ mpc' = mpc
            /\ counters'.success = counters.success
            /\ counters'.sent = counters.sent + (IF pc[w] = "err_sent" THEN 1 ELSE 0)
            /\ counters'.fail = counters.fail + (IF pc[w] = "err_fail" THEN 1 ELSE 0)
            /\ pc[w] = "err_print" => pc'[w] = "task_done"
        /\ (pc[w] = "task_done" /\ pc'[w] # pc[w]) =>
            (pc'[w] = "check" /\ counters' = counters)]_vars
C8_Witness ==
    /\ threads = 2 /\ pc[1] = "err_print" /\ Alive(2)
    /\ counters = [sent |-> 1, success |-> 0, fail |-> 1]

PendingOk ==
    {w \in Workers : pc[w] \in {"ok_lock", "ok_sent", "ok_class"}
                     /\ resp[w] \in 200..399}
PendingOther ==
    {w \in Workers : \/ pc[w] \in {"ok_lock", "ok_sent", "ok_class"}
                        /\ resp[w] \notin 200..399
                     \/ pc[w] \in {"err_lock", "err_sent", "err_fail"}}
PendingSent ==
    {w \in Workers : pc[w] \in {"ok_lock", "ok_sent", "err_lock", "err_sent"}}

\* C9: success counts exactly the answered requests whose status is in
\* [200, 400) and fail all the others (other statuses and faults), one
\* increment of sent and of one of the two per answered request: in every
\* state the counters plus the answers still being recorded are the answers
\* received, and when main() has returned nothing is still being recorded.
C9_ClassificationCounts ==
    /\ counters.success + Cardinality(PendingOk) = answered.ok
    /\ counters.fail + Cardinality(PendingOther) = answered.other
    /\ counters.sent + Cardinality(PendingSent) = answered.ok + answered.other
    /\ mpc = "done" =>
          /\ counters.success = answered.ok
          /\ counters.fail = answered.other
          /\ counters.sent = requests
C9_Witness ==
    /\ mpc = "done" /\ ~stop_event /\ requests >= 2
    /\ answered.ok >= 1 /\ answered.other >= 1
    /\ counters.success = answered.ok /\ counters.fail = answered.other

\* C10: the stop event, once set, stays set; and the handler running again
\* with the event already set changes nothing of the program's state (it
\* only prints its notice again).
C10_StopEventMonotoneIdempotent ==
    [][/\ stop_event => stop_event'
       /\ (stop_event /\ notices' # notices) => UNCHANGED progVars]_vars
C10_Witness ==
    /\ stop_event /\ notices = 2
    /\ \E w \in Workers : pc[w] = "request"

\* C11: a run is rejected exactly when requests > 100000 and
\* threads * requests > 1000000; a rejected run has exited (code 1) with
\* nothing seeded, no thread started and nothing counted; a run that passed
\* the check is not one of those, and has started every worker when main()
\* enters its wait.
C11_GuardrailRejectsExactly ==
    /\ mpc = "rejected" =>
          /\ requests > 100000 /\ threads * requests > 1000000
          /\ ~Running
          /\ q = << >> /\ unfinished = 0
          /\ \A w \in Workers : pc[w] = "unstarted"
          /\ counters = [sent |-> 0, success |-> 0, fail |-> 0]
    /\ mpc \notin {"guard", "rejected"} =>
          ~(requests > 100000 /\ threads * requests > 1000000)
    /\ mpc \in {"spawn", "poll"} => (Len(q) = requests /\ unfinished = requests)
    /\ mpc = "poll" => \A w \in Workers : pc[w] # "unstarted"
C11_Witness ==
    /\ mpc = "rejected" /\ requests = 100001 /\ threads = 10

\* C12: the k-th progress line printed carries the number k: the numbers
\* are 1, 2, ... in printing order with no gap or repeat, and they cover
\* 1..sent whenever no worker is between its increment of sent and its print.
C12_ProgressNumbersInOrder ==
    /\ \A k \in 1..Len(out) : out[k] = k
    /\ Len(out) + Cardinality({w \in Workers :
           pc[w] \in {"ok_class", "ok_print", "err_fail", "err_print"}})
          = counters.sent
    /\ lock = NoOne => Len(out) = counters.sent
C12_Witness ==
    /\ threads = 2 /\ out = <<1, 2>>
    /\ pc[1] = "task_done" /\ pc[2] = "ok_lock"

InSummary == mpc \in {"sum_sent", "sum_success", "sum_fail", "done"}

\* C13: the summary is printed once, its values are the counters read at
\* lines 123-125 and satisfy sent = success + fail, and from the first read
\* on no step changes a counter, whether or not every thread had exited when
\* its join returned.
C13_SummaryIsFinalSnapshot ==
    /\ [](/\ Len(summary) <= 3
          /\ mpc = "done" =>
                /\ summary = <<counters.sent, counters.success, counters.fail>>
                /\ summary[1] = summary[2] + summary[3])
    /\ [][/\ InSummary => (counters' = counters /\ InSummary')
          /\ Len(summary') >= Len(summary)
          /\ mpc = "done" => summary' = summary]_vars
C13_Witness ==
    /\ mpc = "done" /\ stop_event /\ requests >= 2
    /\ summary = <<requests, 1, requests - 1>>
    /\ \E w \in Workers : Alive(w)

\* C14: a worker whose request is in progress holds no lock, and the lock
\* is held only by a worker inside lines 45-50 or 53-55; so a worker waiting
\* for the lock never waits for a worker that is inside the request call.
C14_NoLockAcrossRequest ==
    /\ \A w \in Workers : pc[w] = "request" => lock # w
    /\ \A w \in Workers : lock = w => InCritical(w)
    /\ lock \in Workers \cup {NoOne}
C14_Witness ==
    /\ threads = 2 /\ pc[1] = "request"
    /\ lock = 2 /\ pc[2] = "err_sent"

\* C15: a worker attempts a take only right after a stop check that read the
\* event as not set, exits as stopped only from a stop check that read it as
\* set, exits as drained only from a take that found the queue empty, and
\* once exited stays exited; when every worker has exited no unit is taken
\* and no counter changes any more.
C15_WorkerStateMachine ==
    [][/\ \A w \in Workers :
            /\ (pc'[w] = "take" /\ pc[w] # "take")
                  => (pc[w] = "check" /\ ~stop_event)
            /\ (pc'[w] = "stopped" /\ pc[w] # "stopped")
                  => (pc[w] = "check" /\ stop_event)
            /\ (pc'[w] = "drained" /\ pc[w] # "drained")
                  => (pc[w] = "take" /\ q = << >>)
            /\ (pc'[w] = "request" /\ pc[w] # "request")
                  => (pc[w] = "take" /\ q # << >>)
            /\ Exited(w) => pc'[w] = pc[w]
       /\ (Workers # {} /\ AllExited)
              => (q' = q /\ counters' = counters /\ unfinished' = unfinished)]_vars
C15_Witness ==
    /\ threads = 2 /\ pc[1] = "stopped" /\ pc[2] = "drained"
    /\ counters.sent >= 1

\* C16: a run of the handler changes the stop event (and prints its notice)
\* and nothing else: the queue, its unfinished count, the counters, the lock,
\* every worker's position and response and main()'s position stay as they
\* are.
C16_HandlerChangesOnlyStopEvent ==
    [][notices' # notices =>
          /\ stop_event'
          /\ UNCHANGED <<requests, threads, q, unfinished, counters, lock,
                         pc, resp, mpc, mi, out, summary>>]_vars
C16_Witness ==
    /\ notices = 1 /\ stop_event /\ Len(q) = 2 /\ unfinished = 3
    /\ \E w \in Workers : pc[w] = "request"

InFlight ==
    {w \in Workers : pc[w] \in {"request", "ok_lock", "ok_sent",
                                "err_lock", "err_sent"}}
NotMarkedDone ==
    {w \in Workers : pc[w] \in {"request", "ok_lock", "ok_sent", "ok_class",
                                "ok_print", "err_lock", "err_sent", "err_fail",
                                "err_print", "task_done"}}

\* C17: once the queue is seeded, units left + requests in flight (taken,
\* not yet counted in sent) + sent = requests, with at most one request in
\* flight per worker thread; the unfinished count is the units left plus the units taken
\* and not yet marked done, never negative, and 0 when main() has returned.
C17_WorkConserved ==
    HandlerInstalled =>
        /\ Len(q) + Cardinality(InFlight) + counters.sent = requests
        /\ Cardinality(InFlight) <= Cardinality(Workers)
        /\ unfinished = Len(q) + Cardinality(NotMarkedDone)
        /\ unfinished >= 0
        /\ mpc = "done" => unfinished = 0
C17_Witness ==
    /\ threads = 2 /\ requests = 3 /\ Len(q) = 1 /\ counters.sent = 1
    /\ pc[1] = "request" /\ pc[2] = "task_done" /\ unfinished = 3

\* What sent can still grow to: sent, plus the requests in flight, plus the
\* workers that have passed the stop check and not yet dequeued.
Budget ==
    counters.sent + Cardinality(InFlight)
        + Cardinality({w \in Workers : pc[w] = "take"})

\* C18: from the raise on, no worker passes the stop check, so the budget
\* (sent + requests in flight + workers between the stop check and the
\* dequeue) never grows again and sent never exceeds it: the final sent is
\* at most the budget at the moment of the raise, and the requests started
\* after the raise are at most the workers that stood at the dequeue then,
\* one each.
C18_LateStartsBounded ==
    /\ [](counters.sent <= Budget /\ Budget <= counters.sent + Cardinality(Workers))
    /\ [][stop_event' => Budget' <= Budget]_vars
    /\ [][\A w \in Workers :
            (stop_event /\ pc'[w] = "take") => pc[w] = "take"]_vars
C18_Witness ==
    /\ stop_event /\ threads = 2 /\ Len(q) >= 2
    /\ pc[1] = "take" /\ pc[2] = "take" /\ counters.sent = 0

C20_NoThreadsBlocksInQueueJoin ==
    (threads <= 0 /\ requests >= 1) =>
        /\ Workers = {}
        /\ counters = [sent |-> 0, success |-> 0, fail |-> 0]
        /\ out = << >> /\ summary = << >>
        /\ mpc \in {"guard", "seed", "spawn", "poll", "qjoin"}
        /\ HandlerInstalled => (Len(q) = requests /\ unfinished = requests)
C20_Witness ==
    /\ threads <= 0 /\ requests >= 1 /\ mpc = "qjoin" /\ stop_event

====
